---- MODULE Spec2Model ----
(***************************************************************************)
(* Turn execution, event-stream aggregation, exchange store, context        *)
(* assembly and document reranking of the chat application.                *)
(*                                                                         *)
(*   src/src/components/chat.py   render (turn controller, context),       *)
(*                                render_message_events (aggregator),      *)
(*                                render_current_chat_container,           *)
(*                                extract_assistant_content                *)
(*   src/src/core/db.py           save_exchange_to_db, load_history_from_db*)
(*                                toggle_exchange_marker, delete_session,  *)
(*                                delete_marked_exchanges                  *)
(*   src/src/components/sidebar.py         marker checkboxes               *)
(*   src/src/components/session_config.py  context flags, sessions         *)
(*   src/src/utils/heuristic_reranker.py   HeuristicReranker               *)
(*   src/src/main.py              main (history load before each render)   *)
(*                                                                         *)
(* Python strings that hold an event log are modelled as sequences of      *)
(* tokens: a token is the text json.dumps produced for one dict, a newline,*)
(* or a piece of plain text.  Text carried inside events (content, names,  *)
(* results) is a TLA+ string, concatenated with \o.                        *)
(***************************************************************************)
EXTENDS Integers, Sequences, FiniteSets, TLC

VARIABLES
    \* ---- st.session_state and the store (turn controller) ----
    running,          \* st.session_state.running: None, a uuid token, 'in_progress'
    current_chat,     \* st.session_state["current_chat"]: list of {user, assistant}
    history,          \* st.session_state["history"]: list of {id?, user, assistant, marked}
    db,               \* rows of table chat_exchanges, in insertion order
    next_id,          \* next AUTOINCREMENT id of chat_exchanges
    \* ---- st.session_state keys written by session_config.py ----
    session_id,          \* st.session_state["session_id"]
    use_marked_context,  \* st.session_state["use_marked_context"]
    use_history,         \* st.session_state["use_history"]
    use_full_history,    \* st.session_state["use_full_history"]
    history_length,      \* st.session_state["history_length"]
    \* ---- the script run that is inside render()'s processing branch ----
    pc,               \* "idle" | "streaming" | "finally" | "save" | "load"
    original_query,   \* local original_query of render()
    full_response,    \* local full_response of render()
    marked_context_str,   \* local marked_context_str of render()
    history_context_str,  \* local history_context_str of render()
    shown,            \* blocks drawn in current_chat_placeholder
    \* ---- the external stream and what was observed of the turn ----
    received,         \* chunks pulled from the stream in the turn in progress
    outcome,          \* how its stream ended: "none" | "exhausted" | "raised" | "noagent"
    submitted,        \* queries submitted so far, in order
    calls,            \* agent.run calls issued in the turn in progress
    advances,         \* entries into the processing branch in the turn in progress
    \* ---- aggregator driven on its own (SpecAgg) ----
    event_string,     \* argument of render_message_events
    render_blocks,    \* blocks it built from event_string
    \* ---- functions driven on their own (SpecExtract, SpecRerank) ----
    extracted,        \* what extract_assistant_content(event_string) did
    reranker,         \* the HeuristicReranker object, or how __init__ ended
    rerank            \* the frame of one call of reranker.rerank

vars == <<running, current_chat, history, db, next_id, session_id,
          use_marked_context, use_history, use_full_history, history_length,
          pc, original_query, full_response, marked_context_str,
          history_context_str, shown, received, outcome, submitted, calls,
          advances, event_string, render_blocks, extracted, reranker, rerank>>

\* the session configuration
cfgVars == <<session_id, use_marked_context, use_history, use_full_history,
             history_length>>

\* the context handed to agent.run
ctxVars == <<marked_context_str, history_context_str>>

ctlVars == <<running, current_chat, history, db, next_id, pc, original_query,
             full_response, shown, received, outcome, submitted, calls,
             advances, cfgVars, ctxVars>>

aggVars == <<event_string, render_blocks>>

utilVars == <<extracted, reranker, rerank>>

----------------------------------------------------------------------------
(* Bounds of the model.                                                    *)
MaxTurns    == 2     \* queries submitted in one behaviour
MaxEvents   == 2     \* chunks one stream yields before it ends or raises
MaxAdvances == 2     \* processing-branch entries counted per turn
MaxLog      == 4     \* events fed to the aggregator in SpecAgg
MaxFairTurns == 1    \* queries submitted in one behaviour of FairSpec

----------------------------------------------------------------------------
(* Python values.                                                          *)
None == "<None>"

\* dict.get(key, default)
Get(d, k, default) == IF k \in DOMAIN d THEN d[k] ELSE default

\* the empty dict {}
EmptyDict == <<>>

\* s[:-1] of a list
AllButLast(s) == IF Len(s) = 0 THEN <<>> ELSE SubSeq(s, 1, Len(s) - 1)

\* "".join(list of str)
RECURSIVE Join(_)
Join(ss) == IF ss = <<>> THEN "" ELSE Head(ss) \o Join(Tail(ss))

----------------------------------------------------------------------------
(* Log strings: json.dumps, str.splitlines, str.strip, json.loads.         *)
NL == [t |-> "nl"]

\* json.dumps(d): one line of JSON text, never containing a line break
Dumps(d) == [t |-> "json", v |-> d]

\* a piece of non-blank text that is not JSON
Text(s) == [t |-> "text", s |-> s]

\* str.splitlines(): the lines between newlines; no empty last line after a
\* final newline
RECURSIVE SplitFrom(_, _, _)
SplitFrom(s, i, cur) ==
    IF i > Len(s) THEN (IF cur = <<>> THEN <<>> ELSE <<cur>>)
    ELSE IF s[i] = NL THEN <<cur>> \o SplitFrom(s, i + 1, <<>>)
    ELSE SplitFrom(s, i + 1, Append(cur, s[i]))

SplitLines(s) == SplitFrom(s, 1, <<>>)

\* a run of spaces or tabs
Blank == [t |-> "ws"]

\* the text of a JSON value that is not an object (a number, a string, a
\* list, null)
JsonScalar(v) == [t |-> "scalar", v |-> v]

\* truthiness of line.strip(): the line holds something besides whitespace
Strip(line) == \E k \in 1..Len(line) : line[k].t # "ws"

\* the line without its whitespace
Core(line) == SelectSeq(line, LAMBDA tok : tok.t # "ws")

\* json.loads(line): the value when the line is exactly one JSON text,
\* otherwise JSONDecodeError
LoadsOk(line) == Len(Core(line)) = 1 /\ Core(line)[1].t \in {"json", "scalar"}
Loads(line)   == Core(line)[1].v

\* isinstance(json.loads(line), dict): only a dict has .get
IsObject(line) == Core(line)[1].t = "json"

----------------------------------------------------------------------------
(* render_message_events: the aggregation of an event log into blocks.     *)
(* The loop state is the triple of its locals.  active_tool_block aliases  *)
(* an element of render_blocks, so it is kept as that element's index      *)
(* (0 for None).                                                           *)

\* step 1: the events parsed from the non-blank lines; lines that do not
\* parse are skipped
RECURSIVE ParseLines(_)
ParseLines(lines) ==
    IF lines = <<>> THEN <<>>
    ELSE LET line == Head(lines)
             rest == ParseLines(Tail(lines))
         IN  IF Strip(line) /\ LoadsOk(line) THEN <<Loads(line)>> \o rest
             ELSE rest

ParseEvents(s) == ParseLines(SplitLines(s))

TextBlock(buf) == [type |-> "text", content |-> Join(buf)]

\* if current_text_buffer: render_blocks.append(text block); buffer = []
FlushText(st) ==
    IF st.current_text_buffer # <<>>
    THEN [st EXCEPT !.render_blocks = Append(@, TextBlock(st.current_text_buffer)),
                    !.current_text_buffer = <<>>]
    ELSE st

\* the slot test of the ToolCallCompleted branch
SlotOpen(st) ==
    /\ st.active_tool_block # 0
    /\ ~ st.render_blocks[st.active_tool_block].completed

OnRunContentBug(st, event) ==
    LET content == Get(event, "content", "")
    IN  IF content # ""
        THEN [st EXCEPT !.current_text_buffer = <<content>>]
        ELSE st

\* the new text put in front of the pending text
OnRunContentPrepends(st, event) ==
    LET content == Get(event, "content", "")
    IN  IF content # ""
        THEN [st EXCEPT !.current_text_buffer = <<content>> \o @]
        ELSE st

\* lines 104-107: a content that is not empty is appended to the buffer
OnRunContent(st, event) ==
    LET content == Get(event, "content", "")
    IN  IF content # ""
        THEN [st EXCEPT !.current_text_buffer = Append(@, content)]
        ELSE st

OnToolCallStartedBug(st, event) ==
    LET tool_data == Get(event, "tool", EmptyDict)
        block     == [type      |-> "tool",
                      name      |-> Get(tool_data, "tool_name", "Unknown Tool"),
                      args      |-> Get(tool_data, "tool_args", ""),
                      result    |-> None,
                      completed |-> FALSE]
    IN  [st EXCEPT !.render_blocks = Append(@, block),
                   !.active_tool_block = Len(st.render_blocks) + 1]

\* a start that finds the slot open leaves the slot on the earlier block
OnToolCallStartedKeepsSlot(st, event) ==
    LET f         == FlushText(st)
        tool_data == Get(event, "tool", EmptyDict)
        block     == [type      |-> "tool",
                      name      |-> Get(tool_data, "tool_name", "Unknown Tool"),
                      args      |-> Get(tool_data, "tool_args", ""),
                      result    |-> None,
                      completed |-> FALSE]
    IN  [f EXCEPT !.render_blocks = Append(@, block),
                  !.active_tool_block = IF SlotOpen(f) THEN @
                                        ELSE Len(f.render_blocks) + 1]

\* lines 110-124: the pending text is flushed, the new block is appended and
\* active_tool_block is bound to it, whatever it was bound to before
OnToolCallStarted(st, event) ==
    LET f         == FlushText(st)
        tool_data == Get(event, "tool", EmptyDict)
        block     == [type      |-> "tool",
                      name      |-> Get(tool_data, "tool_name", "Unknown Tool"),
                      args      |-> Get(tool_data, "tool_args", ""),
                      result    |-> None,
                      completed |-> FALSE]
    IN  [f EXCEPT !.render_blocks = Append(@, block),
                  !.active_tool_block = Len(f.render_blocks) + 1]

\* merges only when the completion names the tool that was started
OnToolCallCompletedNamed(st, event) ==
    LET tool_data == Get(event, "tool", EmptyDict)
        result    == Get(tool_data, "result", "")
        merged    == [st EXCEPT !.render_blocks[st.active_tool_block].result = result,
                                !.render_blocks[st.active_tool_block].completed = TRUE]
        f         == FlushText(st)
        orphan    == [f EXCEPT !.render_blocks =
                          Append(@, [type      |-> "tool",
                                     name      |-> "Tool Result",
                                     args      |-> None,
                                     result    |-> result,
                                     completed |-> TRUE])]
        same      == /\ SlotOpen(st)
                     /\ st.render_blocks[st.active_tool_block].name
                            = Get(tool_data, "tool_name", "")
    IN  [(IF same THEN merged ELSE orphan) EXCEPT !.active_tool_block = 0]

\* pushes the orphaned result without flushing the pending text
OnToolCallCompletedNoFlush(st, event) ==
    LET tool_data == Get(event, "tool", EmptyDict)
        result    == Get(tool_data, "result", "")
        merged    == [st EXCEPT !.render_blocks[st.active_tool_block].result = result,
                                !.render_blocks[st.active_tool_block].completed = TRUE]
        orphan    == [st EXCEPT !.render_blocks =
                          Append(@, [type      |-> "tool",
                                     name      |-> "Tool Result",
                                     args      |-> None,
                                     result    |-> result,
                                     completed |-> TRUE])]
    IN  [(IF SlotOpen(st) THEN merged ELSE orphan) EXCEPT !.active_tool_block = 0]

OnToolCallCompleted(st, event) ==
    LET tool_data == Get(event, "tool", EmptyDict)
        result    == Get(tool_data, "result", "")
        merged    == [st EXCEPT !.render_blocks[st.active_tool_block].result = result,
                                !.render_blocks[st.active_tool_block].completed = TRUE]
        f         == FlushText(st)
        orphan    == [f EXCEPT !.render_blocks =
                          Append(@, [type      |-> "tool",
                                     name      |-> "Tool Result",
                                     args      |-> None,
                                     result    |-> result,
                                     completed |-> TRUE])]
    IN  [(IF SlotOpen(st) THEN merged ELSE orphan) EXCEPT !.active_tool_block = 0]

\* one iteration of "for event in events"
AggStep(st, event) ==
    LET event_type == Get(event, "event", None)
    IN  CASE event_type = "RunContent"        -> OnRunContent(st, event)
          [] event_type = "ToolCallStarted"   -> OnToolCallStarted(st, event)
          [] event_type = "ToolCallCompleted" -> OnToolCallCompleted(st, event)
          [] OTHER                            -> st

AggInit == [render_blocks |-> <<>>, current_text_buffer |-> <<>>,
            active_tool_block |-> 0]

RECURSIVE AggLoop(_, _)
AggLoop(st, events) ==
    IF events = <<>> THEN st ELSE AggLoop(AggStep(st, Head(events)), Tail(events))

\* returns the blocks of the loop without the flush after it
AggregateNoFinalFlush(events) == AggLoop(AggInit, events).render_blocks

\* step 2 on a list of events: the loop, then the flush of the remaining text
Aggregate(events) == FlushText(AggLoop(AggInit, events)).render_blocks

\* the blocks render_message_events draws for event_string
RenderMessageEvents(s) ==
    IF s = <<>> THEN <<>> ELSE Aggregate(ParseEvents(s))

----------------------------------------------------------------------------
(* The aggregator on its own: event_string grows by one serialized event   *)
(* per step and render_message_events is re-run on it, as it is after      *)
(* every chunk of a stream and on every replay of a stored log.            *)

\* wire events fed to the aggregator
AggEvents ==
    { [event |-> "RunContent", content |-> "a"],
      [event |-> "RunContent", content |-> "b"],
      [event |-> "RunContent", content |-> ""],
      [event |-> "ToolCallStarted",
       tool  |-> [tool_name |-> "t1", tool_args |-> "x"]],
      [event |-> "ToolCallStarted",
       tool  |-> [tool_name |-> "t2", tool_args |-> "y"]],
      [event |-> "ToolCallStarted"],
      [event |-> "ToolCallCompleted",
       tool  |-> [tool_name |-> "t1", result |-> "r1"]],
      [event |-> "ToolCallCompleted",
       tool  |-> [tool_name |-> "t2", result |-> "r2"]],
      [event |-> "RunCompleted", content |-> "ab"] }

AggFeed(e) ==
    /\ Len(ParseEvents(event_string)) < MaxLog
    /\ event_string' = event_string \o <<Dumps(e), NL>>
    /\ render_blocks' = RenderMessageEvents(event_string')
    /\ UNCHANGED <<ctlVars, utilVars>>

NextAgg == \E e \in AggEvents : AggFeed(e)

----------------------------------------------------------------------------
(* extract_assistant_content and the context built from the history.       *)

\* what a call leaves when an exception of class exc escapes it
Raised(exc) == "<raised " \o exc \o ">"

\* lines 50-55, the body of the try: the content of the line if it is a
\* RunCompleted object; json.loads raises on text that is not JSON and .get
\* raises on a value that is not a dict
ExtractTry(line) ==
    IF ~ LoadsOk(line) THEN Raised("JSONDecodeError")
    ELSE IF ~ IsObject(line) THEN Raised("AttributeError")
    ELSE IF Get(Loads(line), "event", None) = "RunCompleted"
         THEN Get(Loads(line), "content", "")
         ELSE ""

\* an except clause that catches JSONDecodeError only
ExtractExceptDecodeOnly(res) ==
    IF res = Raised("JSONDecodeError") THEN "" ELSE res

\* lines 56-57: the bare except returns "" for whatever was raised
ExtractExcept(res) ==
    IF res \in {Raised("JSONDecodeError"), Raised("AttributeError")}
    THEN "" ELSE res

\* the non-blank lines, lines 46-48
NonBlankLines(log) ==
    SelectSeq(SplitLines(log), LAMBDA line : Strip(line))

\* extraction that examines the first non-blank line
ExtractFirstLine(log) ==
    LET lines == NonBlankLines(log)
    IN  IF log = <<>> THEN ""
        ELSE IF lines = <<>> THEN ""
        ELSE ExtractExcept(ExtractTry(lines[1]))

\* extract_assistant_content (lines 39-57): only the last non-blank line is
\* examined
ExtractAssistantContent(log) ==
    LET lines == NonBlankLines(log)
    IN  IF log = <<>> THEN ""
        ELSE IF lines = <<>> THEN ""
        ELSE ExtractExcept(ExtractTry(lines[Len(lines)]))

\* an entry in the format of the history context
MarkedEntryAsHistory(msg, content) ==
    "User: " \o msg.user \o "\nAssistant: " \o content \o "\n\n"

\* line 274
MarkedEntry(msg, content) ==
    "User: " \o msg.user \o "\nAssistant: " \o content \o "\n---\n"

\* line 286
HistoryEntry(msg, content) ==
    "User: " \o msg.user \o "\nAssistant: " \o content \o "\n\n"

\* lines 266-274: the loop over st.session_state.history[:-1]
RECURSIVE MarkedLoop(_)
MarkedLoop(msgs) ==
    IF msgs = <<>> THEN ""
    ELSE LET msg     == Head(msgs)
             content == ExtractAssistantContent(Get(msg, "assistant", <<>>))
         IN  (IF Get(msg, "marked", FALSE) /\ content # ""
              THEN MarkedEntry(msg, content) ELSE "")
             \o MarkedLoop(Tail(msgs))

\* s[-k:] of a list
LastSlice(s, k) ==
    IF k = 0 \/ k >= Len(s) THEN s ELSE SubSeq(s, Len(s) - k + 1, Len(s))

\* the window taken over the whole list, the in-flight entry included
HistSourceWhole(hist, full, length) ==
    IF ~ full THEN AllButLast(LastSlice(hist, length)) ELSE AllButLast(hist)

\* lines 279-281
HistSource(hist, full, length) ==
    IF ~ full THEN LastSlice(AllButLast(hist), length) ELSE AllButLast(hist)

\* lines 283-286
RECURSIVE HistoryLoop(_)
HistoryLoop(msgs) ==
    IF msgs = <<>> THEN ""
    ELSE LET msg     == Head(msgs)
             content == ExtractAssistantContent(Get(msg, "assistant", <<>>))
         IN  (IF content # "" THEN HistoryEntry(msg, content) ELSE "")
             \o HistoryLoop(Tail(msgs))

\* lines 264-276: marked_context_str
MarkedContextStr(hist, use_marked) ==
    IF use_marked THEN MarkedLoop(AllButLast(hist)) ELSE ""

\* lines 278-286: history_context_str
HistoryContextStr(hist, use_hist, full, length) ==
    IF use_hist THEN HistoryLoop(HistSource(hist, full, length)) ELSE ""

----------------------------------------------------------------------------
(* The turn controller: render() of chat.py run by main() of main.py.      *)
(* One script run is one call of main(); the run that enters the           *)
(* processing branch is split at the points where it pulls a chunk and at  *)
(* the statements of its finally block.                                    *)

\* session ids: the uuid auto_initialize draws and an id the user types
SessionIds == {"s1", "s2"}

\* values uuid4() may return
Uuids == {"uuid-1"}

\* texts the user may type into st.chat_input
Queries == {"What is 2+2?", "hi"}

\* chunks the stream of agent.run may yield
Chunks ==
    { [event |-> "RunContent", content |-> "4", references |-> "doc"],
      [event |-> "RunCompleted", content |-> "4", references |-> "doc"] }

\* str(e) of the exceptions the stream may raise
Errors == {"boom"}

\* lines 305-306: references are blanked on every chunk but RunCompleted
ClearReferences(chunk) ==
    IF /\ "references" \in DOMAIN chunk
       /\ chunk.references # ""
       /\ chunk.event # "RunCompleted"
    THEN [chunk EXCEPT !.references = ""]
    ELSE chunk

\* chunk.to_dict() of the agent library: the fields of the chunk
ToDict(chunk) == chunk

\* line 321: the synthetic event of the except branch
ErrorEvent(e) == [event |-> "RunContent", content |-> "\n\nError: " \o e]

\* line 292: the text shown when no agent is configured
NoAgentText == Text("Agent not initialized. Please configure the model.")

\* load_history_from_db: the rows of the session, oldest first (rows are
\* inserted with non-decreasing timestamps); the read is taken to succeed
LoadHistoryFromDb(rows, sid) ==
    LET mine == SelectSeq(rows, LAMBDA r : r.session_id = sid)
    IN  [i \in 1..Len(mine) |->
            [id        |-> mine[i].id,
             user      |-> mine[i].user_content,
             assistant |-> mine[i].assistant_content,
             marked    |-> mine[i].is_marked]]

\* main.py lines 37-40
MainLoadHistory ==
    IF history = <<>> THEN LoadHistoryFromDb(db, session_id) ELSE history

\* st.session_state["current_chat"][-1]["assistant"] = text
SetAssistant(chat, text) == [chat EXCEPT ![Len(chat)].assistant = text]

\* the test without the comparison with 'in_progress'
ShouldStartBug(token) == token # None

\* lines 254-256: the test that lets the processing branch start the stream
ShouldStart(token) == token # None /\ token # "in_progress"

\* a finally block that leaves running as it is
GuardReleasedBug == running

\* line 326: the value the finally block stores in running
GuardReleased == None

Init ==
    /\ running = None
    /\ current_chat = <<>>
    /\ history = <<>>
    /\ db = <<>>
    /\ next_id = 1
    /\ session_id = "s1"
    /\ use_marked_context = TRUE
    /\ use_history = TRUE
    /\ use_full_history = TRUE
    /\ history_length = 5
    /\ marked_context_str = ""
    /\ history_context_str = ""
    /\ pc = "idle"
    /\ original_query = None
    /\ full_response = <<>>
    /\ shown = <<>>
    /\ received = <<>>
    /\ outcome = "none"
    /\ submitted = <<>>
    /\ calls = 0
    /\ advances = 0
    /\ event_string = <<>>
    /\ render_blocks = <<>>
    /\ extracted = ""
    /\ reranker = [built |-> "no"]
    /\ rerank = [pc |-> "none"]

\* a turn that forgets the text typed by the user
NewTurnBlank(query) == <<[user |-> "", assistant |-> <<>>]>>

\* line 246: the list holding the turn of the query just typed
NewTurn(query) == <<[user |-> query, assistant |-> <<>>]>>

\* a script run whose chat_input returns query (lines 245-251).  The code
\* tests nothing but the query; the input is delivered to a run that starts
\* while no turn is active, because st.rerun() of line 251 starts the next
\* run without input and that run enters the processing branch, and because
\* a submit during an active turn is outside the caller's contract.
Submit(query) ==
    /\ pc = "idle"
    /\ running = None
    /\ Len(submitted) < MaxTurns
    /\ \E token \in Uuids :
          /\ current_chat' = NewTurn(query)
          /\ history' = Append(MainLoadHistory,
                               [user |-> query, assistant |-> <<>>, marked |-> FALSE])
          /\ running' = token
    /\ submitted' = Append(submitted, query)
    /\ UNCHANGED <<db, next_id, pc, original_query, full_response, shown,
                   received, outcome, calls, advances, aggVars, cfgVars,
                   ctxVars, utilVars>>

\* lines 257-303 when no agent is configured: the warning text becomes the
\* response and the finally block follows
StartNoAgent ==
    /\ full_response' = <<NoAgentText>>
    /\ current_chat' = SetAssistant(current_chat, full_response')
    /\ shown' = RenderMessageEvents(full_response')
    /\ outcome' = "noagent"
    /\ pc' = "finally"
    /\ UNCHANGED calls

\* lines 257-303 with an agent: agent.run is called and the loop is entered
StartStream ==
    /\ full_response' = <<>>
    /\ shown' = RenderMessageEvents(current_chat[Len(current_chat)].assistant)
    /\ calls' = calls + 1
    /\ pc' = "streaming"
    /\ UNCHANGED <<current_chat, outcome>>

\* a script run without chat input (lines 253-256), between two runs or at
\* a suspension point of the stream loop: it starts the turn if the guard
\* lets it and does nothing otherwise
Advance ==
    /\ pc \in {"idle", "streaming"}
    /\ running # None => advances < MaxAdvances
    /\ advances' = IF running # None THEN advances + 1 ELSE advances
    /\ history' = MainLoadHistory
    /\ IF ShouldStart(running)
       THEN /\ running' = "in_progress"
            /\ original_query' = current_chat[Len(current_chat)].user
            /\ marked_context_str' =
                   MarkedContextStr(history', use_marked_context)
            /\ history_context_str' =
                   HistoryContextStr(history', use_history, use_full_history,
                                     history_length)
            /\ \E agent \in BOOLEAN : IF agent THEN StartStream ELSE StartNoAgent
       ELSE UNCHANGED <<running, original_query, full_response, current_chat,
                        shown, outcome, pc, calls, ctxVars>>
    /\ UNCHANGED <<db, next_id, received, submitted, aggVars, cfgVars,
                   utilVars>>

\* the loop appending the events without the newline between them
StreamEventNoNewline(chunk) ==
    /\ pc = "streaming"
    /\ Len(received) < MaxEvents
    /\ LET event     == ToDict(ClearReferences(chunk))
           str_event == Dumps(event)
       IN  full_response' = full_response \o <<str_event>>
    /\ current_chat' = SetAssistant(current_chat, full_response')
    /\ shown' = RenderMessageEvents(full_response')
    /\ received' = Append(received, chunk)
    /\ UNCHANGED <<running, history, db, next_id, pc, original_query, outcome,
                   submitted, calls, advances, aggVars, cfgVars,
                   ctxVars, utilVars>>

\* lines 304-317: one iteration of the loop over the stream
StreamEvent(chunk) ==
    /\ pc = "streaming"
    /\ Len(received) < MaxEvents
    /\ LET event     == ToDict(ClearReferences(chunk))
           str_event == Dumps(event)
       IN  full_response' = full_response \o <<str_event, NL>>
    /\ current_chat' = SetAssistant(current_chat, full_response')
    /\ shown' = RenderMessageEvents(full_response')
    /\ received' = Append(received, chunk)
    /\ UNCHANGED <<running, history, db, next_id, pc, original_query, outcome,
                   submitted, calls, advances, aggVars, cfgVars,
                   ctxVars, utilVars>>

\* the except branch with the error event replacing the response so far
StreamRaiseDropsLog(e) ==
    /\ pc = "streaming"
    /\ full_response' = <<Dumps(ErrorEvent(e)), NL>>
    /\ current_chat' = SetAssistant(current_chat, full_response')
    /\ shown' = RenderMessageEvents(full_response')
    /\ outcome' = "raised"
    /\ pc' = "finally"
    /\ UNCHANGED <<running, history, db, next_id, original_query, received,
                   submitted, calls, advances, aggVars, cfgVars,
                   ctxVars, utilVars>>

\* lines 319-324: the stream (or the processing of a chunk) raises
StreamRaise(e) ==
    /\ pc = "streaming"
    /\ full_response' = full_response \o <<Dumps(ErrorEvent(e)), NL>>
    /\ current_chat' = SetAssistant(current_chat, full_response')
    /\ shown' = RenderMessageEvents(full_response')
    /\ outcome' = "raised"
    /\ pc' = "finally"
    /\ UNCHANGED <<running, history, db, next_id, original_query, received,
                   submitted, calls, advances, aggVars, cfgVars,
                   ctxVars, utilVars>>

\* the for loop ends: the stream is exhausted
StreamExhausted ==
    /\ pc = "streaming"
    /\ outcome' = "exhausted"
    /\ pc' = "finally"
    /\ UNCHANGED <<running, current_chat, history, db, next_id, original_query,
                   full_response, shown, received, submitted, calls, advances,
                   aggVars, cfgVars,
                   ctxVars, utilVars>>

\* line 326
FinallyReset ==
    /\ pc = "finally"
    /\ running' = GuardReleased
    /\ pc' = "save"
    /\ UNCHANGED <<current_chat, history, db, next_id, original_query,
                   full_response, shown, received, outcome, submitted, calls,
                   advances, aggVars, cfgVars,
                   ctxVars, utilVars>>

\* save_exchange_to_db (db.py 23-55): the row is inserted, or the store
\* raises and the except branch only prints
SaveExchangeToDb(user_content, assistant_content, ok) ==
    IF ok
    THEN /\ db' = Append(db, [id                |-> next_id,
                              session_id        |-> session_id,
                              user_content      |-> user_content,
                              assistant_content |-> assistant_content,
                              is_marked         |-> FALSE])
         /\ next_id' = next_id + 1
    ELSE UNCHANGED <<db, next_id>>

\* lines 327-329
FinallySave ==
    /\ pc = "save"
    /\ \E ok \in BOOLEAN : SaveExchangeToDb(original_query, full_response, ok)
    /\ pc' = "load"
    /\ UNCHANGED <<running, current_chat, history, original_query,
                   full_response, shown, received, outcome, submitted, calls,
                   advances, aggVars, cfgVars,
                   ctxVars, utilVars>>

\* lines 330-333: history is reloaded and the script reruns
FinallyLoad ==
    /\ pc = "load"
    /\ history' = LoadHistoryFromDb(db, session_id)
    /\ pc' = "idle"
    /\ received' = <<>>
    /\ outcome' = "none"
    /\ calls' = 0
    /\ advances' = 0
    /\ marked_context_str' = ""
    /\ history_context_str' = ""
    /\ UNCHANGED <<running, current_chat, db, next_id, original_query,
                   full_response, shown, submitted, aggVars, cfgVars,
                   utilVars>>

Next ==
    \/ \E query \in Queries : Submit(query)
    \/ Advance
    \/ \E chunk \in Chunks : StreamEvent(chunk)
    \/ \E e \in Errors : StreamRaise(e)
    \/ StreamExhausted
    \/ FinallyReset
    \/ FinallySave
    \/ FinallyLoad

Spec == Init /\ [][Next]_vars

ScriptStep ==
    \/ Advance
    \/ \E chunk \in Chunks : StreamEvent(chunk)
    \/ \E e \in Errors : StreamRaise(e)
    \/ StreamExhausted
    \/ FinallyReset
    \/ FinallySave
    \/ FinallyLoad

\* the controller followed for MaxFairTurns turns
FairSubmit(query) == Len(submitted) < MaxFairTurns /\ Submit(query)

\* the query typed in FairSpec: the guard does not depend on its text
FairQueries == {"hi"}

FairNext ==
    \/ \E query \in FairQueries : FairSubmit(query)
    \/ ScriptStep

\* a script that has a step to take takes it: st.rerun() starts the next
\* run, the stream ends, and the finally block runs to its end
FairSpec == Init /\ [][FairNext]_vars /\ WF_vars(ScriptStep)

SpecAgg == Init /\ [][NextAgg]_vars

----------------------------------------------------------------------------
(* The operations on table chat_exchanges (db.py) as the pages call them:  *)
(* the save and reload that end a turn, the marker checkbox of the         *)
(* sidebar, and the session page.  Each is one script run between turns.   *)

MaxRows == 2     \* rows inserted in one behaviour of SpecStore

\* what is left alone by the operations on the store
nonStoreVars == <<running, current_chat, pc, original_query, full_response,
                  shown, received, outcome, submitted, calls, advances,
                  use_marked_context, use_history, use_full_history,
                  history_length, ctxVars, aggVars, utilVars>>

\* logs a finished turn hands to save_exchange_to_db
TurnLogs ==
    { <<Dumps([event |-> "RunContent", content |-> "4", references |-> ""]), NL,
        Dumps([event |-> "RunCompleted", content |-> "4", references |-> "doc"]), NL>>,
      <<Dumps(ErrorEvent("boom")), NL>> }

\* load_session_list (db.py 10-21): SELECT DISTINCT session_id
SessList(rows) == {rows[k].session_id : k \in 1..Len(rows)}

\* an UPDATE without its WHERE clause
ToggleExchangeMarkerAll(rows, exchange_id, new_value, ok) ==
    IF ok
    THEN [k \in 1..Len(rows) |-> [rows[k] EXCEPT !.is_marked = new_value]]
    ELSE rows

\* toggle_exchange_marker (db.py 57-65): UPDATE ... SET is_marked = :val
\* WHERE id = :id, or an exception that is printed
ToggleExchangeMarker(rows, exchange_id, new_value, ok) ==
    IF ok
    THEN [k \in 1..Len(rows) |->
            IF rows[k].id = exchange_id
            THEN [rows[k] EXCEPT !.is_marked = new_value]
            ELSE rows[k]]
    ELSE rows

\* a DELETE without its WHERE clause
DeleteSessionAll(rows, sid, ok) ==
    IF ok THEN <<>> ELSE rows

\* delete_session (db.py 101-111): DELETE FROM chat_exchanges WHERE
\* session_id = :sid, or an exception that is printed
DeleteSession(rows, sid, ok) ==
    IF ok THEN SelectSeq(rows, LAMBDA r : r.session_id # sid) ELSE rows

\* delete_marked_exchanges (db.py 113-120): DELETE ... WHERE session_id =
\* :sid AND is_marked = 1, or an exception that is printed
DeleteMarkedExchanges(rows, sid, ok) ==
    IF ok
    THEN SelectSeq(rows, LAMBDA r : ~ (r.session_id = sid /\ r.is_marked))
    ELSE rows

\* chat.py 327-333: the finally block of a turn saves the exchange of the
\* turn and reloads the history
StoreSave(query, log) ==
    /\ pc = "idle"
    /\ running = None
    /\ next_id <= MaxRows
    /\ \E ok \in BOOLEAN : SaveExchangeToDb(query, log, ok)
    /\ history' = LoadHistoryFromDb(db', session_id)
    /\ UNCHANGED <<session_id, nonStoreVars>>

\* sidebar.py 43-57: the checkbox of history item i is flipped
ToggleMarker(i, ok) ==
    /\ pc = "idle"
    /\ running = None
    /\ i \in 1..Len(history)
    /\ Get(history[i], "id", 0) # 0
    /\ LET is_marked == ~ Get(history[i], "marked", FALSE)
       IN  /\ db' = ToggleExchangeMarker(db, history[i].id, is_marked, ok)
           /\ history' = [history EXCEPT ![i].marked = is_marked]
    /\ UNCHANGED <<next_id, session_id, nonStoreVars>>

\* session_config.py 52-60: a new session id is typed and created
NewSession(new_id) ==
    /\ pc = "idle"
    /\ running = None
    /\ new_id \notin SessList(db)
    /\ session_id' = new_id
    /\ history' = <<>>
    /\ UNCHANGED <<db, next_id, nonStoreVars>>

\* session_config.py 71-78: another session of the list is loaded
SwitchSession(sid) ==
    /\ pc = "idle"
    /\ running = None
    /\ sid \in SessList(db)
    /\ sid # session_id
    /\ session_id' = sid
    /\ history' = <<>>
    /\ UNCHANGED <<db, next_id, nonStoreVars>>

\* session_config.py 71-72, 79-84: another session of the list is deleted;
\* the current session has no delete button, so lines 81-83 never run
DeleteSessionClick(sid, ok) ==
    /\ pc = "idle"
    /\ running = None
    /\ sid \in SessList(db)
    /\ sid # session_id
    /\ db' = DeleteSession(db, sid, ok)
    /\ UNCHANGED <<history, next_id, session_id, nonStoreVars>>

\* delete_marked_exchanges called on a session; no page of this repository
\* calls it, it is part of the interface of the store
DeleteMarkedCall(sid, ok) ==
    /\ pc = "idle"
    /\ running = None
    /\ sid \in SessList(db)
    /\ db' = DeleteMarkedExchanges(db, sid, ok)
    /\ UNCHANGED <<history, next_id, session_id, nonStoreVars>>

NextStore ==
    \/ \E query \in Queries, log \in TurnLogs : StoreSave(query, log)
    \/ \E i \in 1..MaxRows, ok \in BOOLEAN : ToggleMarker(i, ok)
    \/ \E new_id \in SessionIds : NewSession(new_id)
    \/ \E sid \in SessionIds : SwitchSession(sid)
    \/ \E sid \in SessionIds, ok \in BOOLEAN : DeleteSessionClick(sid, ok)
    \/ \E sid \in SessionIds, ok \in BOOLEAN : DeleteMarkedCall(sid, ok)
    \/ Advance

SpecStore == Init /\ [][NextStore]_vars

----------------------------------------------------------------------------
(* The start of a turn in a session that has a history: the session page   *)
(* sets the context flags, a query is submitted, and the processing branch *)
(* builds the context up to the call of agent.run.                         *)

MaxHist == 3     \* exchanges of the session when SpecCtx starts

\* values of the number_input of history_length (1 to 20)
HistoryLengths == {1, 2, 5}

\* the exchanges earlier turns left in the store: a query and its log
PastExchanges ==
    { [user_content |-> "What is 2+2?",
       assistant_content |->
          <<Dumps([event |-> "RunContent", content |-> "4", references |-> ""]), NL,
            Dumps([event |-> "RunCompleted", content |-> "4", references |-> "doc"]), NL>>],
      [user_content |-> "hi",
       assistant_content |->
          <<Dumps([event |-> "RunCompleted", content |-> "hello"]), NL>>],
      [user_content |-> "hi",
       assistant_content |-> <<Dumps(ErrorEvent("boom")), NL>>] }

\* a session whose store holds up to MaxHist exchanges, some of them
\* marked, and whose history was loaded from it
InitCtx ==
    /\ \E n \in 0..MaxHist :
          \E past \in [1..n -> PastExchanges], marks \in [1..n -> BOOLEAN] :
             /\ db = [i \in 1..n |->
                        [id                |-> i,
                         session_id        |-> "s1",
                         user_content      |-> past[i].user_content,
                         assistant_content |-> past[i].assistant_content,
                         is_marked         |-> marks[i]]]
             /\ next_id = n + 1
    /\ session_id = "s1"
    /\ history = LoadHistoryFromDb(db, session_id)
    /\ running = None
    /\ current_chat = <<>>
    /\ use_marked_context = TRUE
    /\ use_history = TRUE
    /\ use_full_history = TRUE
    /\ history_length = 5
    /\ marked_context_str = ""
    /\ history_context_str = ""
    /\ pc = "idle"
    /\ original_query = None
    /\ full_response = <<>>
    /\ shown = <<>>
    /\ received = <<>>
    /\ outcome = "none"
    /\ submitted = <<>>
    /\ calls = 0
    /\ advances = 0
    /\ event_string = <<>>
    /\ render_blocks = <<>>
    /\ extracted = ""
    /\ reranker = [built |-> "no"]
    /\ rerank = [pc |-> "none"]

\* session_config.py 28-38: the checkboxes and the number input of the
\* session page are read into st.session_state
CtxConfig(uh, uf, hl, um) ==
    /\ pc = "idle"
    /\ running = None
    /\ use_history' = uh
    /\ IF uh
       THEN /\ use_full_history' = uf
            /\ history_length' = IF ~ uf THEN hl ELSE history_length
       ELSE UNCHANGED <<use_full_history, history_length>>
    /\ use_marked_context' = um
    /\ UNCHANGED <<running, current_chat, history, db, next_id, session_id,
                   pc, original_query, full_response, shown, received,
                   outcome, submitted, calls, advances, ctxVars, aggVars,
                   utilVars>>

NextCtx ==
    \/ \E uh \in BOOLEAN, uf \in BOOLEAN, hl \in HistoryLengths, um \in BOOLEAN :
          CtxConfig(uh, uf, hl, um)
    \/ \E query \in Queries : Submit(query)
    \/ Advance

SpecCtx == InitCtx /\ [][NextCtx]_vars

----------------------------------------------------------------------------
(* extract_assistant_content applied to logs of any shape, one more line   *)
(* at a time.                                                              *)

MaxLines == 3    \* lines of the logs given to extract_assistant_content

\* the lines a log may hold: events, an event without content, text that is
\* not JSON, JSON that is not an object, whitespace, nothing
LogLines ==
    { <<Dumps([event |-> "RunContent", content |-> "4"])>>,
      <<Dumps([event |-> "RunCompleted", content |-> "4"])>>,
      <<Dumps([event |-> "RunCompleted"])>>,
      <<Text("Agent not initialized.")>>,
      <<JsonScalar(5)>>,
      <<Blank>>,
      <<>> }

\* extract_assistant_content is called on the log extended by one line
ExtFeed(line) ==
    /\ Len(SplitLines(event_string)) < MaxLines
    /\ event_string' = event_string \o line \o <<NL>>
    /\ extracted' = ExtractAssistantContent(event_string')
    /\ UNCHANGED <<ctlVars, render_blocks, reranker, rerank>>

NextExtract == \E line \in LogLines : ExtFeed(line)

SpecExtract == Init /\ [][NextExtract]_vars

----------------------------------------------------------------------------
(* HeuristicReranker (utils/heuristic_reranker.py): construction and one   *)
(* call of rerank, split at the calls of the judge.  Scores and the        *)
(* threshold are counted in tenths; an Optional value is <<>> for None and *)
(* <<v>> for the value v.                                                  *)

MaxDocs == 3     \* documents given to rerank

Unset == <<>>

\* 1.0 in tenths
ScoreOne == 10

\* values given for top_n and for collected_number
OptCounts == {Unset, <<0>>, <<1>>, <<2>>}

\* values given for score_threshold: None, -0.1, 0.0, 0.7, 1.0, 1.1
OptThresholds == {Unset, <<-1>>, <<0>>, <<7>>, <<ScoreOne>>, <<ScoreOne + 1>>}

\* the keyword arguments of the constructor
RerankerData ==
    [top_n : OptCounts, score_threshold : OptThresholds,
     collected_number : OptCounts]

\* the validation without its last test
InitRaisesNoPairTest(data) ==
    \/ data.top_n # Unset /\ data.top_n[1] < 1
    \/ data.collected_number # Unset /\ data.collected_number[1] < 1
    \/ /\ data.score_threshold # Unset
       /\ ~ (0 <= data.score_threshold[1] /\ data.score_threshold[1] <= ScoreOne)

\* __init__ lines 60-68: the tests that raise ValueError
InitRaises(data) ==
    \/ data.top_n # Unset /\ data.top_n[1] < 1
    \/ data.collected_number # Unset /\ data.collected_number[1] < 1
    \/ /\ data.score_threshold # Unset
       /\ ~ (0 <= data.score_threshold[1] /\ data.score_threshold[1] <= ScoreOne)
    \/ data.collected_number # Unset /\ data.score_threshold = Unset

\* a reranker is constructed from data; llm tells whether the subclass set
\* the judge client (lines 179-181, 193-198)
Construct(data, llm) ==
    /\ reranker.built = "no"
    /\ reranker' =
          IF InitRaises(data)
          THEN [built |-> "ValueError", data |-> data]
          ELSE [built            |-> "yes",
                data             |-> data,
                top_n            |-> data.top_n,
                score_threshold  |-> data.score_threshold,
                collected_number |-> data.collected_number,
                llm              |-> llm]
    /\ UNCHANGED <<ctlVars, aggVars, extracted, rerank>>

\* what the judge does for one document: its text holds <score>v</score>
\* with v in tenths, or no score tag, or the call raises
ScoreValues == {3, 6, 7, 9, 15}

JudgeOutcomes ==
    {[kind |-> "score", value |-> v] : v \in ScoreValues}
       \cup {[kind |-> "unparsable"], [kind |-> "raise"]}

\* line 134: max(0.0, min(1.0, score))
Clamp(v) == IF v < 0 THEN 0 ELSE IF v > ScoreOne THEN ScoreOne ELSE v

\* line 163: the sort key
SortKey(doc) ==
    IF doc.reranking_score # Unset THEN doc.reranking_score[1] ELSE 0

\* one insertion of a stable descending sort
\* ties broken the other way: a later document overtakes an equal earlier one
StaysAheadStrict(earlier, doc) == SortKey(earlier) > SortKey(doc)

\* list.sort is stable, also with reverse=True: an earlier document stays
\* ahead of a later one unless its key is smaller
StaysAhead(earlier, doc) == SortKey(earlier) >= SortKey(doc)

RECURSIVE InsertDesc(_, _)
InsertDesc(sorted, doc) ==
    IF sorted = <<>> THEN <<doc>>
    ELSE IF StaysAhead(Head(sorted), doc)
         THEN <<Head(sorted)>> \o InsertDesc(Tail(sorted), doc)
         ELSE <<doc>> \o sorted

RECURSIVE SortLoop(_)
SortLoop(docs) ==
    IF docs = <<>> THEN <<>>
    ELSE InsertDesc(SortLoop(AllButLast(docs)), docs[Len(docs)])

\* the list left as it is
SortedDocsUnsorted(docs) == docs

\* line 163: list.sort(key, reverse=True), which is stable
SortedDocs(docs) == SortLoop(docs)

\* lines 166-169
TopN(docs, top_n) ==
    IF top_n # Unset
    THEN SubSeq(docs, 1, IF top_n[1] < Len(docs) THEN top_n[1] ELSE Len(docs))
    ELSE docs

\* lines 74-83: rerank is called with n documents that have no score yet
RerankCall(n) ==
    /\ reranker.built = "yes"
    /\ rerank.pc = "none"
    /\ LET documents == [i \in 1..n |-> [id |-> i, reranking_score |-> Unset]]
       IN  rerank' =
              [pc          |-> IF n = 0 \/ ~ reranker.llm THEN "done" ELSE "loop",
               documents   |-> documents,
               scored_docs |-> <<>>,
               judged      |-> <<>>,
               result      |-> IF n > 0 /\ ~ reranker.llm THEN documents
                               ELSE <<>>]
    /\ UNCHANGED <<ctlVars, aggVars, extracted, reranker>>

\* document i gets the score v (in tenths)
WithScore(frame, i, v) ==
    [frame EXCEPT !.documents[i].reranking_score = <<v>>]

\* scored_docs.append(doc) for document i
Kept(frame, i) == [frame EXCEPT !.scored_docs = Append(@, i)]

\* the else branch leaving the loop after the document
OnUnparsableBreak(frame, i) ==
    IF reranker.score_threshold # Unset /\ reranker.score_threshold[1] > 0
    THEN [frame |-> frame, brk |-> TRUE]
    ELSE [frame |-> Kept(WithScore(frame, i, 0), i), brk |-> TRUE]

\* lines 149-154: the response holds no score tag
OnUnparsable(frame, i) ==
    IF reranker.score_threshold # Unset /\ reranker.score_threshold[1] > 0
    THEN [frame |-> frame, brk |-> FALSE]
    ELSE [frame |-> Kept(WithScore(frame, i, 0), i), brk |-> FALSE]

\* an except branch that gives up the batch
OnExceptionAbort(frame, i) ==
    [frame |-> Kept(WithScore(frame, i, 0), i), brk |-> TRUE]

\* lines 156-159: the except branch
OnException(frame, i) ==
    [frame |-> Kept(WithScore(frame, i, 0), i), brk |-> FALSE]

\* lines 85-160: the body of the loop for document i and judge outcome out;
\* brk tells that the loop is left by break
LoopBody(frame, i, out) ==
    LET threshold == reranker.score_threshold
        collected == reranker.collected_number
        scored(v) == [frame EXCEPT !.documents[i].reranking_score = <<v>>]
        kept(f)   == [f EXCEPT !.scored_docs = Append(f.scored_docs, i)]
    IN  IF out.kind = "score"
        THEN LET f1 == scored(Clamp(out.value))
             IN  IF threshold # Unset
                 THEN LET f2 == IF Clamp(out.value) >= threshold[1]
                                THEN kept(f1) ELSE f1
                      IN  [frame |-> f2,
                           brk   |-> /\ collected # Unset
                                     /\ Len(f2.scored_docs) >= collected[1]]
                 ELSE [frame |-> kept(f1), brk |-> FALSE]
        ELSE IF out.kind = "unparsable"
        THEN OnUnparsable(frame, i)
        ELSE OnException(frame, i)

\* lines 162-169: sort and cut
Finish(frame) ==
    LET docs == [k \in 1..Len(frame.scored_docs) |->
                    frame.documents[frame.scored_docs[k]]]
    IN  [frame EXCEPT !.pc = "done",
                      !.result = TopN(SortedDocs(docs), reranker.top_n)]

\* the judge is called for the next document and answers out; after the
\* last document or a break the list is sorted and cut
Score(out) ==
    /\ rerank.pc = "loop"
    /\ LET i    == Len(rerank.judged) + 1
           step == LoopBody([rerank EXCEPT !.judged = Append(@, out)], i, out)
       IN  rerank' = IF step.brk \/ i = Len(rerank.documents)
                     THEN Finish(step.frame)
                     ELSE step.frame
    /\ UNCHANGED <<ctlVars, aggVars, extracted, reranker>>

NextRerank ==
    \/ \E data \in RerankerData, llm \in BOOLEAN : Construct(data, llm)
    \/ \E n \in 0..MaxDocs : RerankCall(n)
    \/ \E out \in JudgeOutcomes : Score(out)

SpecRerank == Init /\ [][NextRerank]_vars

----------------------------------------------------------------------------
(* Properties of the aggregator, checked under SpecAgg.                    *)

\* the events render_message_events parsed from event_string
Events == ParseEvents(event_string)

\* the loop locals after the first k events, and the output for them alone
LoopAt(k)   == AggLoop(AggInit, SubSeq(Events, 1, k))
BlocksAt(k) == Aggregate(SubSeq(Events, 1, k))

IsPrefix(a, b) == Len(a) <= Len(b) /\ SubSeq(b, 1, Len(a)) = a

EventType(k) == Get(Events[k], "event", None)

\* the text of the RunContent events among events m+1 .. n
RECURSIVE TextOf(_, _)
TextOf(m, n) ==
    IF m >= n THEN ""
    ELSE TextOf(m, n - 1)
            \o (IF EventType(n) = "RunContent"
                THEN Get(Events[n], "content", "") ELSE "")

NumTools(blocks) == Cardinality({i \in 1..Len(blocks) : blocks[i].type = "tool"})

\* C6 (as stated): the blocks of every prefix of the log are a prefix of the
\* blocks of the whole log.
C6_PrefixOfExtension ==
    \A k \in 0..Len(Events) : IsPrefix(BlocksAt(k), render_blocks)

\* C6 (amended): the blocks of the whole log agree with the blocks of every
\* prefix of the log, position by position, except that the block of a tool
\* call still open at the end of the prefix may get its result and completed
\* flag, and the last block of the prefix, when it is the text still pending
\* at its end, may grow by the text deltas that follow.
C6_PrefixUpToOpenBlocks ==
    \A k \in 0..Len(Events) :
        LET B  == BlocksAt(k)
            st == LoopAt(k)
        IN  /\ Len(B) <= Len(render_blocks)
            /\ \A i \in 1..Len(B) :
                  \/ render_blocks[i] = B[i]
                  \/ /\ SlotOpen(st)
                     /\ i = st.active_tool_block
                     /\ render_blocks[i] =
                            [B[i] EXCEPT !.completed = TRUE,
                                         !.result = render_blocks[i].result]
                  \/ /\ i = Len(B)
                     /\ st.current_text_buffer # <<>>
                     /\ render_blocks[i].type = "text"
                     /\ \E j \in k..Len(Events) :
                           render_blocks[i].content = B[i].content \o TextOf(k, j)

\* a log one of whose prefixes has a pending text that grew and an open tool
\* block that was completed afterwards
C6_Witness ==
    \E k \in 1..Len(Events) :
        /\ SlotOpen(LoopAt(k))
        /\ LoopAt(k).current_text_buffer # <<>>
        /\ render_blocks[LoopAt(k).active_tool_block].completed
        /\ render_blocks[Len(BlocksAt(k))] # BlocksAt(k)[Len(BlocksAt(k))]

\* C7 (as stated): after every event that is not a RunContent the text
\* accumulator is empty, so no text block spans such an event.
C7_EveryOtherEventFlushes ==
    \A k \in 1..Len(Events) :
        EventType(k) # "RunContent" => LoopAt(k).current_text_buffer = <<>>

\* C7 (amended): a ToolCallStarted, and a ToolCallCompleted that finds no
\* open slot, flush the pending text as one text block before their own
\* block; a ToolCallCompleted that fills the open slot and a RunCompleted
\* leave the accumulator and the number of blocks as they were.
C7_FlushOnNewToolBlock ==
    \A k \in 1..Len(Events) :
        LET pre  == LoopAt(k - 1)
            post == LoopAt(k)
            n    == Len(pre.render_blocks)
            newBlock == \/ EventType(k) = "ToolCallStarted"
                        \/ EventType(k) = "ToolCallCompleted" /\ ~ SlotOpen(pre)
        IN  /\ newBlock =>
                 /\ post.current_text_buffer = <<>>
                 /\ IsPrefix(pre.render_blocks, post.render_blocks)
                 /\ IF pre.current_text_buffer # <<>>
                    THEN /\ Len(post.render_blocks) = n + 2
                         /\ post.render_blocks[n + 1] =
                               [type |-> "text", content |-> Join(pre.current_text_buffer)]
                         /\ post.render_blocks[n + 2].type = "tool"
                    ELSE /\ Len(post.render_blocks) = n + 1
                         /\ post.render_blocks[n + 1].type = "tool"
            /\ (EventType(k) \in {"ToolCallCompleted", "RunCompleted"} /\ ~ newBlock) =>
                 /\ post.current_text_buffer = pre.current_text_buffer
                 /\ Len(post.render_blocks) = n

\* a log in which text before and text after the completion of an open tool
\* call landed in one text block, and text before a ToolCallStarted was
\* flushed
C7_Witness ==
    /\ Len(Events) = 4
    /\ EventType(1) = "RunContent"
    /\ EventType(2) = "ToolCallStarted"
    /\ EventType(3) = "RunContent"
    /\ EventType(4) = "ToolCallCompleted"
    /\ LoopAt(4).current_text_buffer # <<>>
    /\ Len(render_blocks) = 3
    /\ render_blocks[1].type = "text"

ToolOf(k) == Get(Events[k], "tool", EmptyDict)

\* events i < j are a ToolCallStarted and the first ToolCallCompleted after
\* it, with no other ToolCallStarted between them
StartedThenCompleted(i, j) ==
    /\ i < j
    /\ EventType(i) = "ToolCallStarted"
    /\ EventType(j) = "ToolCallCompleted"
    /\ \A m \in (i + 1)..(j - 1) :
          EventType(m) \notin {"ToolCallStarted", "ToolCallCompleted"}

\* C8: a ToolCallStarted and the ToolCallCompleted that follows it yield one
\* tool block, with the name and args of the start and the result of the
\* completion, completed, whatever the tool names; the completion adds no
\* tool block, and the block stays as it is in the final output.
C8_StartedCompletedMerge ==
    \A i \in 1..Len(Events), j \in 1..Len(Events) :
        StartedThenCompleted(i, j) =>
            LET p      == Len(LoopAt(i).render_blocks)
                merged == [type      |-> "tool",
                           name      |-> Get(ToolOf(i), "tool_name", "Unknown Tool"),
                           args      |-> Get(ToolOf(i), "tool_args", ""),
                           result    |-> Get(ToolOf(j), "result", ""),
                           completed |-> TRUE]
            IN  /\ LoopAt(j).render_blocks[p] = merged
                /\ NumTools(LoopAt(j).render_blocks) = NumTools(LoopAt(i).render_blocks)
                /\ render_blocks[p] = merged

\* a start of tool t1 completed by an event naming tool t2
C8_Witness ==
    \E i \in 1..Len(Events), j \in 1..Len(Events) :
        /\ StartedThenCompleted(i, j)
        /\ Get(ToolOf(i), "tool_name", "") = "t1"
        /\ Get(ToolOf(j), "tool_name", "") = "t2"
        /\ NumTools(render_blocks) = 1

\* C9: a ToolCallCompleted that finds no open slot appends, after the blocks
\* built so far, the pending text (if any) as a text block and then a
\* completed tool block without args carrying the event's result; the
\* accumulator is empty afterwards.
C9_OrphanedCompletion ==
    \A k \in 1..Len(Events) :
        (EventType(k) = "ToolCallCompleted" /\ ~ SlotOpen(LoopAt(k - 1))) =>
            LET pre   == LoopAt(k - 1)
                post  == LoopAt(k)
                text  == IF pre.current_text_buffer # <<>>
                         THEN <<[type |-> "text", content |-> Join(pre.current_text_buffer)]>>
                         ELSE <<>>
                n     == Len(pre.render_blocks) + Len(text) + 1
            IN  /\ Len(post.render_blocks) = n
                /\ SubSeq(post.render_blocks, 1, n - 1) = pre.render_blocks \o text
                /\ post.render_blocks[n].type = "tool"
                /\ post.render_blocks[n].completed
                /\ post.render_blocks[n].args = None
                /\ post.render_blocks[n].result = Get(ToolOf(k), "result", "")
                /\ post.current_text_buffer = <<>>
                /\ IsPrefix(post.render_blocks, render_blocks)

\* a completion that arrives with text pending after the previous tool call
\* was already completed
C9_Witness ==
    /\ Len(Events) = 4
    /\ EventType(1) = "ToolCallStarted"
    /\ EventType(2) = "ToolCallCompleted"
    /\ EventType(3) = "RunContent"
    /\ EventType(4) = "ToolCallCompleted"
    /\ Len(render_blocks) = 3
    /\ render_blocks[2].type = "text"
    /\ render_blocks[3].args = None

\* first event of the run of RunContent events that ends the log (Len + 1
\* when the log does not end with a RunContent)
RECURSIVE TrailStart(_)
TrailStart(n) ==
    IF n >= 1 /\ EventType(n) = "RunContent" THEN TrailStart(n - 1) ELSE n + 1

TrailingText == TextOf(TrailStart(Len(Events)) - 1, Len(Events))

\* the last block is a text block whose text ends with the trailing text
LastBlockHoldsTrailingText ==
    /\ render_blocks # <<>>
    /\ render_blocks[Len(render_blocks)].type = "text"
    /\ \E m \in 0..(TrailStart(Len(Events)) - 1) :
          render_blocks[Len(render_blocks)].content = TextOf(m, Len(Events))

\* C10 (as stated): when the log ends with text deltas, the last block is a
\* text block holding the trailing text.
C10_TrailingTextFlushed ==
    (Len(Events) > 0 /\ EventType(Len(Events)) = "RunContent")
        => LastBlockHoldsTrailingText

\* C10 (amended): when the log ends with text deltas that carry some text,
\* the last block is a text block whose text ends with the trailing text.
C10_NonEmptyTrailingTextFlushed ==
    (Len(Events) > 0 /\ EventType(Len(Events)) = "RunContent" /\ TrailingText # "")
        => LastBlockHoldsTrailingText

\* text "ab" arriving in two deltas after a tool call, no RunCompleted
C10_Witness ==
    /\ Len(Events) = 4
    /\ EventType(1) = "ToolCallStarted"
    /\ EventType(2) = "ToolCallCompleted"
    /\ TrailStart(4) = 3
    /\ TrailingText = "ab"
    /\ render_blocks[Len(render_blocks)].content = "ab"

\* events i < j are two ToolCallStarted with no ToolCallCompleted and no
\* other ToolCallStarted between them: j arrives while the slot of i is open
StartedWhileOpen(i, j) ==
    /\ i < j
    /\ EventType(i) = "ToolCallStarted"
    /\ EventType(j) = "ToolCallStarted"
    /\ \A m \in (i + 1)..(j - 1) :
          EventType(m) \notin {"ToolCallStarted", "ToolCallCompleted"}

\* events m < n are two ToolCallCompleted with no ToolCallStarted and no
\* other ToolCallCompleted between them
CompletedTwice(m, n) ==
    /\ m < n
    /\ EventType(m) = "ToolCallCompleted"
    /\ EventType(n) = "ToolCallCompleted"
    /\ \A k \in (m + 1)..(n - 1) :
          EventType(k) \notin {"ToolCallStarted", "ToolCallCompleted"}

\* C27: there is one tool slot.  A ToolCallStarted that arrives while the
\* slot is open takes the slot over: the next ToolCallCompleted fills the
\* block of the tool started last, the block of the tool started earlier
\* never becomes completed, and a further ToolCallCompleted finds no open
\* slot and is pushed as an orphaned "Tool Result" block.
C27_LaterStartTakesTheSlot ==
    \A i \in 1..Len(Events), j \in 1..Len(Events) :
        StartedWhileOpen(i, j) =>
            LET pi == Len(LoopAt(i).render_blocks)
                pj == Len(LoopAt(j).render_blocks)
            IN  /\ LoopAt(j - 1).active_tool_block = pi
                /\ SlotOpen(LoopAt(j - 1))
                /\ pi < pj
                /\ LoopAt(j).active_tool_block = pj
                /\ \A k \in j..Len(Events) :
                      LoopAt(k).render_blocks[pi] = LoopAt(i).render_blocks[pi]
                /\ ~ render_blocks[pi].completed
                /\ render_blocks[pi].result = None
                /\ \A m \in 1..Len(Events) :
                      StartedThenCompleted(j, m) =>
                         /\ LoopAt(m).render_blocks[pj].completed
                         /\ LoopAt(m).render_blocks[pj].result
                               = Get(ToolOf(m), "result", "")
                         /\ LoopAt(m).render_blocks[pj].name
                               = Get(ToolOf(j), "tool_name", "Unknown Tool")
                         /\ LoopAt(m).active_tool_block = 0
                         /\ \A n \in 1..Len(Events) :
                               CompletedTwice(m, n) =>
                                  LET post == LoopAt(n).render_blocks
                                  IN  /\ NumTools(post)
                                           = NumTools(LoopAt(m).render_blocks) + 1
                                      /\ post[Len(post)].name = "Tool Result"
                                      /\ post[Len(post)].args = None
                                      /\ post[Len(post)].result
                                            = Get(ToolOf(n), "result", "")

\* t1 started, t2 started, then two completions: the block of t1 stays
\* open, the block of t2 holds the first result, the second result is an
\* orphaned block
C27_Witness ==
    /\ Len(Events) = 4
    /\ StartedWhileOpen(1, 2)
    /\ CompletedTwice(3, 4)
    /\ Len(render_blocks) = 3
    /\ render_blocks[1].name = "t1" /\ ~ render_blocks[1].completed
    /\ render_blocks[2].name = "t2" /\ render_blocks[2].completed
    /\ render_blocks[3].name = "Tool Result"

\* the contents of the text blocks among the first n blocks, concatenated
\* in output order
RECURSIVE BlockText(_, _)
BlockText(blocks, n) ==
    IF n = 0 THEN ""
    ELSE BlockText(blocks, n - 1)
            \o (IF blocks[n].type = "text" THEN blocks[n].content ELSE "")

\* C30: the text blocks of the output, concatenated in output order, are the
\* contents of the RunContent events of the log concatenated in input order,
\* and no text block is empty.
C30_TextPreserved ==
    /\ BlockText(render_blocks, Len(render_blocks)) = TextOf(0, Len(Events))
    /\ \A i \in 1..Len(render_blocks) :
          render_blocks[i].type = "text" => render_blocks[i].content # ""

\* "b" and "a" arrive in two deltas, then a tool starts, then an empty delta
\* arrives: one text block "ba" and no block for the empty delta
C30_Witness ==
    /\ Len(Events) = 4
    /\ EventType(1) = "RunContent" /\ EventType(2) = "RunContent"
    /\ EventType(3) = "ToolCallStarted"
    /\ EventType(4) = "RunContent" /\ Get(Events[4], "content", "") = ""
    /\ Len(render_blocks) = 2
    /\ render_blocks[1] = [type |-> "text", content |-> "ba"]

----------------------------------------------------------------------------
(* Properties of the turn controller, checked under Spec and FairSpec.     *)

\* user_content of the rows of the session, oldest first
PersistedQueries ==
    LET mine == LoadHistoryFromDb(db, session_id)
    IN  [i \in 1..Len(mine) |-> mine[i].user]

\* C1: once the controller is idle again, every submitted query has exactly
\* one Exchange in the store: the persisted user texts are the submitted
\* queries, one row each, whatever the outcome of the turns was.
C1_ExactlyOneExchangePerQuery ==
    (pc = "idle" /\ running = None) => PersistedQueries = submitted

\* C2: at most one agent.run call is issued per turn, and a processing-branch
\* entry that finds running = 'in_progress' changes nothing of the session
\* state, the store or the running stream.
C2_SingleStreamPerTurn ==
    /\ [](calls <= 1)
    /\ [][(running = "in_progress" /\ advances' # advances) =>
            UNCHANGED <<running, current_chat, history, db, next_id, pc,
                        original_query, full_response, shown, received,
                        outcome, submitted, calls>>]_vars

\* the processing branch was entered again while the stream was being read
C2_Witness ==
    /\ pc = "streaming"
    /\ running = "in_progress"
    /\ advances = 2
    /\ calls = 1
    /\ Len(received) >= 1

\* C3: every turn that was queued or is streaming gets back to idle.
C3_GuardEventuallyReleased == (running # None) ~> (running = None /\ pc = "idle")

\* back to idle after a stream that raised
C3_Witness ==
    /\ running = None
    /\ pc = "idle"
    /\ Len(submitted) >= 1
    /\ ParseEvents(full_response) # <<>>
    /\ \E e \in Errors :
          ParseEvents(full_response)[Len(ParseEvents(full_response))] = ErrorEvent(e)

\* the events the loop serialized for the chunks it received
WireEvents(chunks) ==
    [i \in 1..Len(chunks) |-> ToDict(ClearReferences(chunks[i]))]

\* C4: the row written for a turn whose stream raised holds the query of the
\* turn as user_content, and its log parses to the events received before
\* the exception, in order, followed by one RunContent event carrying the
\* error message.
C4_RaisedTurnLog ==
    [][(pc = "save" /\ outcome = "raised" /\ db' # db) =>
         /\ Len(db') = Len(db) + 1
         /\ SubSeq(db', 1, Len(db)) = db
         /\ db'[Len(db')].user_content = submitted[Len(submitted)]
         /\ \E e \in Errors :
               ParseEvents(db'[Len(db')].assistant_content) =
                   WireEvents(received)
                      \o <<[event |-> "RunContent", content |-> "\n\nError: " \o e]>>]_vars

\* the row of a turn that raised after two chunks has just been written
C4_Witness ==
    /\ pc = "load"
    /\ outcome = "raised"
    /\ Len(received) = 2
    /\ Len(submitted) = 1
    /\ Len(db) = 1
    /\ Len(ParseEvents(db[1].assistant_content)) = 3

\* the event types of the wire format (render_message_events lines 103-145)
WireEventTypes ==
    {"RunContent", "ToolCallStarted", "ToolCallCompleted", "RunCompleted"}

\* a line that is one JSON object of the wire format
IsWireLine(line) ==
    /\ LoadsOk(line)
    /\ IsObject(line)
    /\ Get(Loads(line), "event", None) \in WireEventTypes

\* C11: every log in the store is newline-delimited JSON: each of its
\* non-blank lines is one JSON object whose event field is RunContent,
\* ToolCallStarted, ToolCallCompleted or RunCompleted, whether the turn
\* succeeded, raised or found no agent.
C11_PersistedLogIsWireFormat ==
    \A i \in 1..Len(db) :
        LET lines == SplitLines(db[i].assistant_content)
        IN  \A k \in 1..Len(lines) : Strip(lines[k]) => IsWireLine(lines[k])

----------------------------------------------------------------------------
(* Properties of the store operations, checked under SpecStore.            *)

\* the ids of the rows
Ids(rows) == {rows[k].id : k \in 1..Len(rows)}

\* the row with the given id
RowOf(rows, id) == rows[CHOOSE k \in 1..Len(rows) : rows[k].id = id]

\* C12: no operation changes the session, the user text or the log of a row
\* that stays in the store, and flipping the marker of a history item
\* changes the is_marked column of the row with the id of the item and
\* nothing else of the table.
C12_OnlyTheMarkerChanges ==
    [][/\ \A id \in Ids(db) \cap Ids(db') :
             /\ RowOf(db', id).session_id = RowOf(db, id).session_id
             /\ RowOf(db', id).user_content = RowOf(db, id).user_content
             /\ RowOf(db', id).assistant_content = RowOf(db, id).assistant_content
       /\ \A i \in 1..Len(history), ok \in BOOLEAN :
             ToggleMarker(i, ok) =>
                /\ Len(db') = Len(db)
                /\ \A k \in 1..Len(db) :
                      IF db[k].id = history[i].id
                      THEN db'[k] = [db[k] EXCEPT !.is_marked = db'[k].is_marked]
                      ELSE db'[k] = db[k]]_vars

\* two rows of one session, the older one marked since it was saved
C12_Witness ==
    /\ Len(db) >= 2
    /\ db[1].session_id = db[2].session_id
    /\ db[1].is_marked
    /\ ~ db[2].is_marked

\* C13 as stated: every row once in the store is in it after every step.
C13_AppendOnly == [][Ids(db) \subseteq Ids(db')]_vars

\* the rows of a step that are gone after it
Gone == Ids(db) \ Ids(db')

\* the ids of the rows, in table order
IdSeq(rows) == [k \in 1..Len(rows) |-> rows[k].id]

\* C13 amended: rows leave the store only by delete_session, which removes
\* the rows of the session it is given, and by delete_marked_exchanges,
\* which removes the marked rows of that session; the other rows stay as
\* they are and in their order; save, marker toggle and history load remove
\* nothing.
C13_OnlyDeletesRemove ==
    [][/\ IdSeq(SelectSeq(db, LAMBDA r : r.id \notin Gone))
            = IdSeq(SelectSeq(db', LAMBDA r : r.id \in Ids(db)))
       /\ Gone # {} =>
            /\ db' = SelectSeq(db, LAMBDA r : r.id \notin Gone)
            /\ \E sid \in SessionIds :
                  \/ /\ DeleteSessionClick(sid, TRUE)
                     /\ Gone = {db[k].id : k \in {n \in 1..Len(db) :
                                                    db[n].session_id = sid}}
                  \/ /\ DeleteMarkedCall(sid, TRUE)
                     /\ Gone = {db[k].id : k \in {n \in 1..Len(db) :
                                                    /\ db[n].session_id = sid
                                                    /\ db[n].is_marked}}]_vars

\* a session was deleted and a row of another session is still there
C13_Witness ==
    /\ Len(db) >= 1
    /\ next_id > Len(db) + 1
    /\ \A k \in 1..Len(db) : ~ db[k].is_marked /\ db[k].session_id = session_id

----------------------------------------------------------------------------
(* Properties of the context, checked under SpecCtx.  No turn ends in      *)
(* SpecCtx, so the rows of the store are the exchanges of the session      *)
(* without the turn in flight.                                             *)

\* the exchanges of the session, oldest first
Exchanges == LoadHistoryFromDb(db, session_id)

\* the content of the RunCompleted event that ends the log, "" without one
TerminalContent(log) ==
    LET evs == ParseEvents(log)
    IN  IF evs # <<>> /\ Get(evs[Len(evs)], "event", None) = "RunCompleted"
        THEN Get(evs[Len(evs)], "content", "")
        ELSE ""

\* the turn has started and its context is built
ContextBuilt == running = "in_progress"

MarkedExchanges == SelectSeq(Exchanges, LAMBDA x : x.marked)

\* C14 as stated: with use_marked_context, the marked context is one entry
\* 'User: u\nAssistant: c\n---\n' per marked exchange, in order, c being ""
\* for a log without terminal RunCompleted event.
C14_OneEntryPerMarkedExchange ==
    (ContextBuilt /\ use_marked_context) =>
        marked_context_str =
            Join([i \in 1..Len(MarkedExchanges) |->
                    "User: " \o MarkedExchanges[i].user \o "\nAssistant: "
                    \o TerminalContent(MarkedExchanges[i].assistant)
                    \o "\n---\n"])

\* the marked exchanges whose log ends with a RunCompleted event of
\* non-empty content
MarkedAnswered ==
    SelectSeq(MarkedExchanges, LAMBDA x : TerminalContent(x.assistant) # "")

\* C14 amended: with use_marked_context, the marked context is one entry per
\* marked exchange that has a non-empty extracted content, in order,
\* whatever the history flags are; a marked exchange without such content
\* has no entry.
C14_OneEntryPerAnsweredMarkedExchange ==
    (ContextBuilt /\ use_marked_context) =>
        marked_context_str =
            Join([i \in 1..Len(MarkedAnswered) |->
                    "User: " \o MarkedAnswered[i].user \o "\nAssistant: "
                    \o TerminalContent(MarkedAnswered[i].assistant)
                    \o "\n---\n"])

\* two answered marked exchanges and a marked one that raised, with the
\* history switched off
C14_Witness ==
    /\ ContextBuilt
    /\ use_marked_context
    /\ ~ use_history
    /\ Len(MarkedExchanges) = 3
    /\ Len(MarkedAnswered) = 2
    /\ MarkedAnswered[1].user # MarkedAnswered[2].user

\* the exchanges the history context is built from
Window ==
    LET n == Len(Exchanges)
        m == IF history_length < n THEN history_length ELSE n
    IN  IF use_full_history THEN Exchanges ELSE SubSeq(Exchanges, n - m + 1, n)

WindowAnswered ==
    SelectSeq(Window, LAMBDA x : TerminalContent(x.assistant) # "")

\* C15: with use_history, the history context is built from the exchanges of
\* the session without the one in flight: from all of them with
\* use_full_history, from the last min(history_length, n) otherwise, in
\* order; the query in flight contributes nothing.
C15_HistoryWindow ==
    (ContextBuilt /\ use_history) =>
        history_context_str =
            Join([i \in 1..Len(WindowAnswered) |->
                    "User: " \o WindowAnswered[i].user \o "\nAssistant: "
                    \o TerminalContent(WindowAnswered[i].assistant)
                    \o "\n\n"])

\* a window of two over three answered exchanges
C15_Witness ==
    /\ ContextBuilt
    /\ use_history
    /\ ~ use_full_history
    /\ history_length = 2
    /\ Len(Exchanges) = 3
    /\ Len(WindowAnswered) = 2
    /\ WindowAnswered[1].user # WindowAnswered[2].user
    /\ Len(history) = 4

----------------------------------------------------------------------------
(* Properties of extract_assistant_content, checked under SpecExtract.     *)

\* the lines of event_string
LogLinesOf == SplitLines(event_string)

\* line k is a JSON object
IsEventLine(k) == LoadsOk(LogLinesOf[k]) /\ IsObject(LogLinesOf[k])

\* line k is a RunCompleted event
IsCompletedLine(k) ==
    IsEventLine(k) /\ Get(Loads(LogLinesOf[k]), "event", None) = "RunCompleted"

\* the greatest element of a non-empty set of line numbers
LastOf(S) == CHOOSE k \in S : \A j \in S : j <= k

\* the content of line k, "" without the key
ContentOf(k) == Get(Loads(LogLinesOf[k]), "content", "")

\* no call of the extraction raised
NeverRaised ==
    extracted \notin {Raised("JSONDecodeError"), Raised("AttributeError")}

\* C16 as stated: extraction never raises, and it returns the content of the
\* last valid event of the log when that event is RunCompleted, wherever the
\* malformed lines are, and "" otherwise.
C16_LastValidEventDecides ==
    /\ NeverRaised
    /\ LET valid == {k \in 1..Len(LogLinesOf) : IsEventLine(k)}
       IN  extracted =
              IF valid # {} /\ IsCompletedLine(LastOf(valid))
              THEN ContentOf(LastOf(valid))
              ELSE ""

\* C16 amended: extraction never raises, and it returns the content of the
\* last non-blank line when that line is a RunCompleted event, whatever the
\* lines before it are, and "" otherwise: also when the last non-blank line
\* is malformed or not an object.
C16_LastNonBlankLineDecides ==
    /\ NeverRaised
    /\ LET nonblank == {k \in 1..Len(LogLinesOf) : Strip(LogLinesOf[k])}
       IN  extracted =
              IF nonblank # {} /\ IsCompletedLine(LastOf(nonblank))
              THEN ContentOf(LastOf(nonblank))
              ELSE ""

\* a malformed line and a blank line around the RunCompleted event that is
\* returned
C16_Witness ==
    /\ Len(LogLinesOf) = 3
    /\ LogLinesOf[1] = <<Text("Agent not initialized.")>>
    /\ IsCompletedLine(2)
    /\ LogLinesOf[3] = <<Blank>>
    /\ extracted = "4"

----------------------------------------------------------------------------
(* The round trip of a turn through the store, checked under Spec.         *)

\* C17: when the stream of a turn ends with a RunCompleted event without
\* raising and the row of the turn is written, the extraction applied to
\* the log as load_history_from_db returns it gives the content of that
\* event.
C17_RoundTrip ==
    [][(/\ pc = "save"
        /\ outcome = "exhausted"
        /\ received # <<>>
        /\ received[Len(received)].event = "RunCompleted"
        /\ db' # db) =>
          LET loaded == LoadHistoryFromDb(db', session_id)
          IN  /\ loaded # <<>>
              /\ loaded[Len(loaded)].user = original_query
              /\ ExtractAssistantContent(loaded[Len(loaded)].assistant)
                    = received[Len(received)].content]_vars

\* 'What is 2+2?' answered by RunContent '4' and RunCompleted '4': one
\* exchange in the reloaded history, two lines in its log, '4' extracted
C17_Witness ==
    /\ pc = "idle"
    /\ running = None
    /\ submitted = <<"What is 2+2?">>
    /\ Len(history) = 1
    /\ history[1].user = "What is 2+2?"
    /\ Len(SplitLines(history[1].assistant)) = 2
    /\ ParseEvents(history[1].assistant)
          = << [event |-> "RunContent", content |-> "4", references |-> ""],
               [event |-> "RunCompleted", content |-> "4", references |-> "doc"] >>
    /\ ExtractAssistantContent(history[1].assistant) = "4"

----------------------------------------------------------------------------
(* Properties of the reranker, checked under SpecRerank.                   *)

\* C18: construction raises exactly when top_n < 1, collected_number < 1,
\* score_threshold is outside [0, 1], or collected_number is given without
\* score_threshold; otherwise the object holds the parameters as given.
C18_ConstructionValidation ==
    reranker.built # "no" =>
       LET d   == reranker.data
           bad == \/ d.top_n # Unset /\ d.top_n[1] < 1
                  \/ d.collected_number # Unset /\ d.collected_number[1] < 1
                  \/ /\ d.score_threshold # Unset
                     /\ \/ d.score_threshold[1] < 0
                        \/ d.score_threshold[1] > ScoreOne
                  \/ d.collected_number # Unset /\ d.score_threshold = Unset
       IN  /\ reranker.built = "ValueError" <=> bad
           /\ ~ bad => /\ reranker.top_n = d.top_n
                       /\ reranker.score_threshold = d.score_threshold
                       /\ reranker.collected_number = d.collected_number

\* collected_number without score_threshold, everything else valid: rejected
C18_Witness ==
    /\ reranker.built = "ValueError"
    /\ reranker.data = [top_n |-> <<2>>, score_threshold |-> Unset,
                        collected_number |-> <<1>>]

\* a call of rerank on a constructed reranker has returned
RerankDone == reranker.built = "yes" /\ rerank.pc = "done"

\* the list is in descending order of score, a missing score counting as 0
SortedDesc(docs) ==
    \A a \in 1..Len(docs), b \in 1..Len(docs) :
        a < b => SortKey(docs[a]) >= SortKey(docs[b])

\* C19 as stated: without score_threshold, rerank returns as many documents
\* as it was given, in descending order of score, whatever the judge did.
C19_SameCountSorted ==
    (RerankDone /\ reranker.score_threshold = Unset) =>
        /\ Len(rerank.result) = Len(rerank.documents)
        /\ SortedDesc(rerank.result)

\* the number of documents returned when none is filtered out
CutLength ==
    LET n == Len(rerank.documents)
    IN  IF reranker.llm /\ reranker.top_n # Unset /\ reranker.top_n[1] < n
        THEN reranker.top_n[1] ELSE n

\* C19 amended: without score_threshold no document is filtered out: rerank
\* returns the documents in descending order of score, cut to the first
\* top_n of that order when top_n is set and the judge client exists; the
\* result has min(top_n, n) documents, and n without top_n.
C19_AllRankedThenCut ==
    (RerankDone /\ reranker.score_threshold = Unset) =>
        /\ Len(rerank.result) = CutLength
        /\ SortedDesc(rerank.result)
        /\ \A a \in 1..Len(rerank.result) :
              /\ rerank.result[a] = rerank.documents[rerank.result[a].id]
              /\ \A b \in 1..Len(rerank.result) :
                    a # b => rerank.result[a].id # rerank.result[b].id
        /\ \A k \in 1..Len(rerank.documents) :
              (\A a \in 1..Len(rerank.result) : rerank.result[a].id # k) =>
                 \A a \in 1..Len(rerank.result) :
                    SortKey(rerank.result[a]) >= SortKey(rerank.documents[k])

\* three documents, the judge unparsable, raising, then scoring 0.9: all
\* three returned, the third first
C19_Witness ==
    /\ RerankDone
    /\ reranker.score_threshold = Unset
    /\ reranker.top_n = Unset
    /\ rerank.judged = <<[kind |-> "unparsable"], [kind |-> "raise"],
                         [kind |-> "score", value |-> 9]>>
    /\ Len(rerank.result) = 3
    /\ rerank.result[1].id = 3

\* the documents for which the judge gave a score of at least the threshold
Qualifying ==
    {k \in 1..Len(rerank.judged) :
        /\ rerank.judged[k].kind = "score"
        /\ Clamp(rerank.judged[k].value) >= reranker.score_threshold[1]}

\* C20: with score_threshold t and collected_number k, the judge is called
\* on the documents in order up to the k-th document that scores at least
\* t and on no document after it, and on all of them if fewer than k do.
C20_StopsAtKthQualifying ==
    (/\ RerankDone
     /\ reranker.llm
     /\ rerank.documents # <<>>
     /\ reranker.score_threshold # Unset
     /\ reranker.collected_number # Unset) =>
        LET k     == reranker.collected_number[1]
            judge_calls == Len(rerank.judged)
        IN  IF Cardinality(Qualifying) >= k
            THEN Cardinality(Qualifying) = k /\ judge_calls \in Qualifying
            ELSE judge_calls = Len(rerank.documents)

\* a positive threshold is configured and the judge client exists
PositiveThreshold ==
    /\ reranker.llm
    /\ reranker.score_threshold # Unset
    /\ reranker.score_threshold[1] > 0

\* C21: with a positive score_threshold, every document rerank returns from
\* its scoring loop has a score of at least the threshold; a document whose
\* judge call raised is not among them.
C21_ReturnedMeetThreshold ==
    (RerankDone /\ PositiveThreshold) =>
        \A a \in 1..Len(rerank.result) :
            /\ rerank.result[a].reranking_score # Unset
            /\ rerank.result[a].reranking_score[1] >= reranker.score_threshold[1]
            /\ rerank.judged[rerank.result[a].id].kind # "raise"

\* the documents of the result, by their place in the input
ResultIds == {rerank.result[a].id : a \in 1..Len(rerank.result)}

\* the documents kept so far
KeptIds == {rerank.scored_docs[a] : a \in 1..Len(rerank.scored_docs)}

\* the scoring loop is running or has returned
InScoring ==
    /\ reranker.built = "yes"
    /\ reranker.llm
    /\ rerank.pc \in {"loop", "done"}

\* C22: a document whose judge response has no score tag is given score 0.0
\* and kept when no threshold is configured, and is dropped and absent from
\* the result when the threshold is greater than zero; either way the loop
\* goes on to the next document.
C22_UnparsableResponse ==
    /\ [](InScoring =>
            \A k \in 1..Len(rerank.judged) :
               rerank.judged[k].kind = "unparsable" =>
                  /\ reranker.score_threshold = Unset =>
                        /\ rerank.documents[k].reranking_score = <<0>>
                        /\ k \in KeptIds
                  /\ (reranker.score_threshold # Unset
                      /\ reranker.score_threshold[1] > 0) =>
                        /\ k \notin KeptIds
                        /\ k \notin ResultIds)
    /\ [][(/\ reranker.built = "yes"
           /\ rerank.pc = "loop"
           /\ rerank' # rerank
           /\ rerank'.judged[Len(rerank'.judged)].kind = "unparsable"
           /\ Len(rerank'.judged) < Len(rerank.documents)) =>
             rerank'.pc = "loop"]_vars

\* threshold 0.7: an unparsable first document is dropped, the second one
\* is scored 0.9 and returned alone
C22_Witness ==
    /\ RerankDone
    /\ reranker.score_threshold = <<7>>
    /\ rerank.judged = <<[kind |-> "unparsable"], [kind |-> "score", value |-> 9]>>
    /\ ResultIds = {2}

\* the ids of the result, in output order
ResultIdSeq == [a \in 1..Len(rerank.result) |-> rerank.result[a].id]

\* C23: the result is in descending score order and documents of equal score
\* keep their input order; with scores 0.9, 0.3, 0.6, top_n = 2 and no
\* threshold the result is exactly the 0.9 document followed by the 0.6 one.
C23_StableDescending ==
    (RerankDone /\ reranker.llm) =>
        /\ \A a, b \in 1..Len(rerank.result) :
              a < b =>
                 \/ SortKey(rerank.result[a]) > SortKey(rerank.result[b])
                 \/ /\ SortKey(rerank.result[a]) = SortKey(rerank.result[b])
                    /\ rerank.result[a].id < rerank.result[b].id
        /\ (/\ reranker.top_n = <<2>>
            /\ reranker.score_threshold = Unset
            /\ rerank.judged = << [kind |-> "score", value |-> 9],
                                  [kind |-> "score", value |-> 3],
                                  [kind |-> "score", value |-> 6] >>)
              => ResultIdSeq = <<1, 3>>

\* two documents of equal score are returned in their input order, after a
\* later document of higher score
C23_Witness ==
    /\ RerankDone
    /\ reranker.llm
    /\ rerank.judged = << [kind |-> "score", value |-> 6],
                          [kind |-> "score", value |-> 6],
                          [kind |-> "score", value |-> 9] >>
    /\ ResultIdSeq = <<3, 1, 2>>

\* the example of the claim: scores 0.9, 0.3, 0.6 and top_n = 2
C23_Example ==
    /\ RerankDone
    /\ reranker.top_n = <<2>>
    /\ reranker.score_threshold = Unset
    /\ ResultIdSeq = <<1, 3>>
    /\ rerank.result[1].reranking_score = <<9>>
    /\ rerank.result[2].reranking_score = <<6>>

\* C24: with top_n configured, a finished call returns at most top_n
\* documents, on the empty-input path, the path without a judge client and
\* the scoring path alike; on the scoring path the result is the first top_n
\* of the sorted kept documents.
C24_AtMostTopN ==
    (RerankDone /\ reranker.top_n # Unset) =>
        /\ Len(rerank.result) <= reranker.top_n[1]
        /\ reranker.llm =>
              rerank.result =
                 TopN(SortedDocs([a \in 1..Len(rerank.scored_docs) |->
                                     rerank.documents[rerank.scored_docs[a]]]),
                      reranker.top_n)

\* the documents whose judge call raised
RaisedIds == {k \in 1..Len(rerank.judged) : rerank.judged[k].kind = "raise"}

\* a raising judge call on a document that is not the last one leaves the
\* loop running
ExceptionDoesNotAbort ==
    [][(/\ reranker.built = "yes"
        /\ rerank.pc = "loop"
        /\ rerank' # rerank
        /\ rerank'.judged[Len(rerank'.judged)].kind = "raise"
        /\ Len(rerank'.judged) < Len(rerank.documents)) =>
          rerank'.pc = "loop"]_vars

C29_AtMostCollectedNumber ==
    (InScoring /\ reranker.collected_number # Unset) =>
        /\ Len(rerank.scored_docs) <= reranker.collected_number[1]
        /\ RerankDone => Len(rerank.result) <= reranker.collected_number[1]

----------------------------------------------------------------------------
(* The end of a turn and the status of the controller.                     *)

\* the finally block has work left: the row is not yet written (pc is
\* "finally" or "save") or the history not yet reloaded (pc is "load")
Finalizing == pc \in {"finally", "save", "load"}

\* the response ends with the line of the synthetic error event
EndsWithErrorEvent ==
    /\ Len(full_response) >= 2
    /\ \E e \in Errors :
          SubSeq(full_response, Len(full_response) - 1, Len(full_response))
             = <<Dumps(ErrorEvent(e)), NL>>

\* C25: the end of a turn appends the error event (if the stream raised),
\* then persists the Exchange, then reloads the history, and only then
\* resets the status to Idle: while the Exchange of the current turn is
\* still unpersisted, or the history not yet reloaded, the status is not Idle.
C25_ResetIsLast ==
    Finalizing =>
        /\ outcome = "raised" => EndsWithErrorEvent
        /\ running # None

\* the status of the turn as session_state.running encodes it
Status ==
    IF running = None THEN "Idle"
    ELSE IF running = "in_progress" THEN "Streaming"
    ELSE "Queued"

\* C28: the status changes only from Idle to Queued (the submit stores the
\* query and a token), from Queued to Streaming (the first processing run,
\* which reads the stored query) and from Streaming to Idle (the finally
\* block); a processing run in Idle changes nothing; and the query stored
\* by the submit is the one passed to agent.run and written as user_content.
C28_StatusTransitions ==
    /\ [][Status' # Status =>
            \/ /\ Status = "Idle" /\ Status' = "Queued"
               /\ running' \in Uuids
               /\ Len(submitted') = Len(submitted) + 1
               /\ current_chat'[Len(current_chat')].user
                     = submitted'[Len(submitted')]
            \/ /\ Status = "Queued" /\ Status' = "Streaming"
               /\ advances' = advances + 1
               /\ original_query' = submitted[Len(submitted)]
            \/ /\ Status = "Streaming" /\ Status' = "Idle"
               /\ pc = "finally"]_vars
    /\ [][(Status = "Idle" /\ Status' = "Idle" /\ pc = "idle") =>
            UNCHANGED <<current_chat, history, db, next_id, pc, original_query,
                        full_response, shown, received, outcome, submitted,
                        calls>>]_vars
    /\ [][calls' > calls => original_query' = submitted[Len(submitted)]]_vars
    /\ [][db' # db =>
            db'[Len(db')].user_content = submitted[Len(submitted)]]_vars

\* the second turn of a session went through the three statuses and its
\* row has just been written with the query of the second submit
C28_Witness ==
    /\ pc = "load"
    /\ Status = "Idle"
    /\ outcome = "exhausted"
    /\ Len(submitted) = 2
    /\ submitted[1] # submitted[2]
    /\ db # <<>>
    /\ db[Len(db)].user_content = submitted[2]

====
